---- MODULE Spec2Model ----
(***************************************************************************)
(* Partial Merkle tree reconstruction of txoutproof-graph.                 *)
(*                                                                         *)
(* The model follows MerkleBranch.CreateMerkleBranch (merkle_branch.go):   *)
(* one MerkleBranch value (binTree, target) on which CreateMerkleBranch is *)
(* called with (vbits, hashes, height); every iteration of its for-loop is *)
(* one step of the model.  Nodes are addressed by their 1-based position   *)
(* in binTree, 0 is the nil pointer.  Go indices are 0-based, sequences    *)
(* here are 1-based: vbits[vbitsIndex] of the code is vbits[vbitsIndex+1]. *)
(*                                                                         *)
(* A hash is a sequence of integers.  The code never inspects the bytes of *)
(* a hash, so the i-th input hash is the one-element sequence <<i>>, the   *)
(* nil slice is <<>> and doubleSha256 is a collision-free constructor over *)
(* its argument bytes.                                                     *)
(***************************************************************************)
EXTENDS Integers, Sequences, FiniteSets, TLC

\* ------------------------------------------------------------------ bounds
MaxTotalTx == 8
MaxVBits == 8
MaxHashes == 5

\* bounds of the inputs of repeated calls on one MerkleBranch value
ReuseMaxTotalTx == 4
ReuseMaxVBits == 5
ReuseMaxHashes == 3

\* width of totalTx in the model of the height loop: it stands for the 32 bits
\* of uint32, the int of the build has as many bits (32-bit targets) or
\* twice as many (64-bit targets)
UintBits == 5

\* readVarInt is tried on readers of up to 4 + MaxVarIntPad bytes after the
\* discriminant
MaxVarIntPad == 5

\* bounds of the proofs given to main
MaxMainTotalTx == 3
MaxProofHashes == 3
MaxFlagPad == 1

\* sizes of the serialized form
HeaderLen == 80
HashLen == 32

\* ------------------------------------------------------- values and hashes
Nil == 0

\* a pointer kept from a tree that a later call has replaced
Discarded == -1

NilHash == <<>>

\* [32]byte{} returned next to an error
ZeroHash == <<0>>

doubleSha256(data) == <<-1>> \o data \o <<-2>>

NewBinTree(parent) == [Hash |-> NilHash, Parent |-> parent, Left |-> Nil, Right |-> Nil]

\* the proof's hash list: n pairwise different 32-byte values
InputHashes(n) == [i \in 1..n |-> <<i>>]

BitSeqs(n) == [1..n -> BOOLEAN]

\* ------------------------------------------------------------------- state
VARIABLES
    intBits,      \* the width of Go's int in the build, only read by the height loop
    totalTx,      \* buildMerkleTreeDot: totalTx (MerkleProofData.TotalTransactions)
    binTree,      \* MerkleBranch.binTree, the nodes in the order of their creation
    target,       \* MerkleBranch.target: Nil, a position in binTree, or Discarded
    vbits,        \* CreateMerkleBranch: the parameters vbits, hashes, height
    hashes,
    height,
    current,      \* CreateMerkleBranch: the locals of lines 31-35
    vbitsIndex,
    hashesIndex,
    depth,
    root,
    pc,           \* "idle" before a call, "loop" in the for-loop, then "ok",
                  \* "errIncomplete" (line 39), "errVBits" (line 90) or "panic"
    args,         \* main: os.Args[1:]
    buf,          \* main: decodedBytes
    proof,        \* the proof whose serialization the argument was cut from
    reader,       \* decodeTxOutProofData: the unread bytes of merkleReader
    merkleRoot,   \* BlockHeader.MerkleRoot
    hashNum,      \* MerkleProofData.HashNum, Hashes, VBitsNum, VBits
    decHashes,
    vbitsNum,
    decVBits,
    err,          \* the error of the last call that returns one, "nil" for none
    output,       \* what the process has written, in the order of writing
    exitCode      \* the exit status, -1 while the process runs

walkVars == <<binTree, target, vbits, hashes, height, current, vbitsIndex,
              hashesIndex, depth, root>>

decodeVars == <<buf, proof, reader, merkleRoot, hashNum, decHashes, vbitsNum, decVBits>>

mainVars == <<args, err, output, exitCode>>

vars == <<intBits, totalTx, walkVars, pc, decodeVars, mainVars>>

St == [binTree |-> binTree, target |-> target, vbits |-> vbits, hashes |-> hashes,
       height |-> height, current |-> current, vbitsIndex |-> vbitsIndex,
       hashesIndex |-> hashesIndex, depth |-> depth, root |-> root, pc |-> pc]

SetState(s) ==
    /\ binTree' = s.binTree
    /\ target' = s.target
    /\ vbits' = s.vbits
    /\ hashes' = s.hashes
    /\ height' = s.height
    /\ current' = s.current
    /\ vbitsIndex' = s.vbitsIndex
    /\ hashesIndex' = s.hashesIndex
    /\ depth' = s.depth
    /\ root' = s.root
    /\ pc' = s.pc

\* MerkleBranch{}: no tree, no target, no call made yet
Fresh == [binTree |-> <<>>, target |-> Nil, vbits |-> <<>>, hashes |-> <<>>,
          height |-> 0, current |-> Nil, vbitsIndex |-> 0, hashesIndex |-> 0,
          depth |-> 0, root |-> ZeroHash, pc |-> "idle"]

\* ------------------------------------------------- CreateMerkleBranch

\* mutant of Enter: the tree is only created when the value has none yet
Enter_LazyInit(s, v, h, ht) ==
    [s EXCEPT !.binTree = IF s.binTree = <<>> THEN <<NewBinTree(Nil)>> ELSE s.binTree,
              !.target = IF s.target = Nil THEN Nil ELSE Discarded,
              !.vbits = v, !.hashes = h, !.height = ht,
              !.current = 1, !.vbitsIndex = 0, !.hashesIndex = 0,
              !.depth = 0, !.root = ZeroHash, !.pc = "loop"]

\* entry of CreateMerkleBranch: binTree is replaced by a one-node tree, the
\* locals are initialised; target is not touched, so a target set by an
\* earlier call keeps pointing into the tree that call built
Enter(s, v, h, ht) ==
    [s EXCEPT !.binTree = <<NewBinTree(Nil)>>,
              !.target = IF s.target = Nil THEN Nil ELSE Discarded,
              !.vbits = v, !.hashes = h, !.height = ht,
              !.current = 1, !.vbitsIndex = 0, !.hashesIndex = 0,
              !.depth = 0, !.root = ZeroHash, !.pc = "loop"]

Cur(s) == s.binTree[s.current]

HasHashedChildren(s) ==
    /\ Cur(s).Left # Nil
    /\ s.binTree[Cur(s).Left].Hash # NilHash
    /\ Cur(s).Right # Nil
    /\ s.binTree[Cur(s).Right].Hash # NilHash

ChildrenHash(s) ==
    doubleSha256(s.binTree[Cur(s).Left].Hash \o s.binTree[Cur(s).Right].Hash)

\* a nil *MerkleNode is dereferenced: the Go runtime panics
NilDeref(s) == [s EXCEPT !.pc = "panic"]

\* lines 37-45: every input hash is consumed
AllHashesParsed(s) ==
    IF s.current = Nil THEN NilDeref(s)
    ELSE IF ~HasHashedChildren(s)
         THEN [s EXCEPT !.root = ZeroHash, !.pc = "errIncomplete"]
         ELSE [s EXCEPT !.root = ChildrenHash(s),
                        !.binTree[s.current].Hash = ChildrenHash(s),
                        !.pc = "ok"]

\* mutant of GoUp: the hash is set and the walk stays on the node
GoUp_Stay(s) ==
    [s EXCEPT !.binTree[s.current].Hash =
                  IF Cur(s).Hash = NilHash THEN ChildrenHash(s) ELSE Cur(s).Hash]

\* mutant of GoUp: the children's hashes are joined right before left
GoUp_RightLeft(s) ==
    [s EXCEPT !.binTree[s.current].Hash =
                  IF Cur(s).Hash = NilHash
                  THEN doubleSha256(s.binTree[Cur(s).Right].Hash \o s.binTree[Cur(s).Left].Hash)
                  ELSE Cur(s).Hash,
              !.current = Cur(s).Parent,
              !.depth = s.depth - 1]

\* lines 47-57: both children exist, set the hash and go to the parent
GoUp(s) ==
    [s EXCEPT !.binTree[s.current].Hash =
                  IF Cur(s).Hash = NilHash THEN ChildrenHash(s) ELSE Cur(s).Hash,
              !.current = Cur(s).Parent,
              !.depth = s.depth - 1]

\* lines 59-67: a left child exists and no right child, create it and enter it
GoRight(s) ==
    IF Cur(s).Left # Nil /\ Cur(s).Right = Nil
    THEN [s EXCEPT !.binTree = Append([s.binTree EXCEPT ![s.current].Right = Len(s.binTree) + 1],
                                      NewBinTree(s.current)),
                   !.current = Len(s.binTree) + 1,
                   !.depth = s.depth + 1]
    ELSE s

\* lines 70-78: the node is a leaf and takes the next hash
SetLeaf(s) ==
    [s EXCEPT !.binTree[s.current].Hash = s.hashes[s.hashesIndex + 1],
              !.hashesIndex = s.hashesIndex + 1,
              !.target = IF s.vbits[s.vbitsIndex + 1] /\ s.depth = s.height
                         THEN s.current ELSE s.target,
              !.current = Cur(s).Parent,
              !.depth = s.depth - 1]

\* mutant of AddLeft: the first child of an internal node is its right child
AddLeft_RightFirst(s) ==
    [s EXCEPT !.binTree = Append([s.binTree EXCEPT ![s.current].Right = Len(s.binTree) + 1],
                                 NewBinTree(s.current)),
              !.current = Len(s.binTree) + 1,
              !.depth = s.depth + 1]

\* lines 80-86: the node is internal, create its left child and enter it
AddLeft(s) ==
    [s EXCEPT !.binTree = Append([s.binTree EXCEPT ![s.current].Left = Len(s.binTree) + 1],
                                 NewBinTree(s.current)),
              !.current = Len(s.binTree) + 1,
              !.depth = s.depth + 1]

\* mutant of NextVBit: the flag index is not advanced
NextVBit_NoIncrement(s) ==
    IF s.vbitsIndex + 1 >= Len(s.vbits)
    THEN [s EXCEPT !.root = ZeroHash, !.pc = "errVBits"]
    ELSE s

\* lines 88-91: the flag is consumed; no flag left is an error
NextVBit(s) ==
    IF s.vbitsIndex + 1 >= Len(s.vbits)
    THEN [s EXCEPT !.vbitsIndex = s.vbitsIndex + 1, !.root = ZeroHash, !.pc = "errVBits"]
    ELSE [s EXCEPT !.vbitsIndex = s.vbitsIndex + 1]

\* mutant of ReadVBit: only an internal node consumes its flag
ReadVBit_LeafKeepsVBit(s) ==
    IF s.vbitsIndex >= Len(s.vbits)
    THEN [s EXCEPT !.pc = "panic"]
    ELSE IF ~s.vbits[s.vbitsIndex + 1] \/ s.depth = s.height
         THEN SetLeaf(s)
         ELSE NextVBit(AddLeft(s))

\* lines 69-91 on the node reached by lines 59-67
ReadVBit(s) ==
    IF s.vbitsIndex >= Len(s.vbits)
    THEN [s EXCEPT !.pc = "panic"]  \* index out of range
    ELSE IF ~s.vbits[s.vbitsIndex + 1] \/ s.depth = s.height
         THEN NextVBit(SetLeaf(s))
         ELSE NextVBit(AddLeft(s))

\* lines 59-91
Visit(s) == ReadVBit(GoRight(s))

\* one iteration of the for-loop (lines 36-92)
Iterate(s) ==
    IF s.hashesIndex = Len(s.hashes) THEN AllHashesParsed(s)
    ELSE IF s.current = Nil THEN NilDeref(s)
    ELSE IF Cur(s).Left # Nil /\ Cur(s).Right # Nil THEN GoUp(s)
    ELSE Visit(s)

\* buildMerkleTreeDot, lines 203-206: height := 0; for (1 << height) < totalTx { height++ }
RECURSIVE HeightLoop(_, _)
HeightLoop(h, n) == IF 2^h < n THEN HeightLoop(h + 1, n) ELSE h

TreeHeight(n) == HeightLoop(0, n)

\* int(totalTx), line 204: a uint32 converted to an int of w bits keeps its
\* low w bits, read as a two's complement number
ToInt(n, w) == IF (n % (2^w)) >= 2^(w - 1) THEN (n % (2^w)) - 2^w ELSE n % (2^w)

\* 1 << uint(h) in an int of w bits, line 204: the bits shifted out are lost,
\* a count of w or more gives 0
ShiftOne(h, w) == IF h >= w THEN 0 ELSE ToInt(2^h, w)

\* the condition of the for statement of line 204
HeightCond(h, n, w) == ShiftOne(h, w) < ToInt(n, w)

\* the loop of CreateMerkleBranch run to its end
RECURSIVE Run(_)
Run(s) == IF s.pc = "loop" THEN Run(Iterate(s)) ELSE s

\* m.CreateMerkleBranch(v, h, ht): the MerkleBranch value and the locals at
\* the return (or at the panic)
CreateMerkleBranch(m, v, h, ht) == Run(Enter(m, v, h, ht))

\* ----------------------------------------------------------------- actions
Returned == {"ok", "errIncomplete", "errVBits"}

\* a proof as the test inputs describe it: the transaction count, the number
\* of hashes, the flag bytes, and the form of the two counts (1: one byte,
\* 3: 0xfd and two bytes)
NoProof == [totalTx |-> 0, nHashes |-> 0, flagBytes |-> <<>>, form |-> 1]

\* no argument read, nothing decoded, nothing written
NoInput ==
    /\ args = <<>>
    /\ buf = <<>>
    /\ proof = NoProof
    /\ reader = <<>>
    /\ merkleRoot = <<>>
    /\ hashNum = 0
    /\ decHashes = <<>>
    /\ vbitsNum = 0
    /\ decVBits = <<>>
    /\ err = "nil"
    /\ output = <<>>
    /\ exitCode = -1

Init ==
    /\ NoInput
    /\ intBits = 2 * UintBits
    /\ totalTx = 0
    /\ binTree = Fresh.binTree
    /\ target = Fresh.target
    /\ vbits = Fresh.vbits
    /\ hashes = Fresh.hashes
    /\ height = Fresh.height
    /\ current = Fresh.current
    /\ vbitsIndex = Fresh.vbitsIndex
    /\ hashesIndex = Fresh.hashesIndex
    /\ depth = Fresh.depth
    /\ root = Fresh.root
    /\ pc = Fresh.pc

\* buildMerkleTreeDot calls CreateMerkleBranch once, on a new MerkleBranch{}
Call ==
    /\ pc = "idle"
    /\ \E n \in 0..MaxTotalTx, nv \in 0..MaxVBits, nh \in 0..MaxHashes :
         \E v \in BitSeqs(nv) :
            /\ totalTx' = n
            /\ UNCHANGED <<intBits, decodeVars, mainVars>>
            /\ SetState(Enter(St, v, InputHashes(nh), TreeHeight(n)))

\* CreateMerkleBranch is called on a MerkleBranch value that may have been
\* used before: the earlier call has returned (a panic ends the process);
\* output holds the lines written since the call began
Recall ==
    /\ pc \in {"idle"} \cup Returned
    /\ \E n \in 0..ReuseMaxTotalTx, nv \in 0..ReuseMaxVBits, nh \in 0..ReuseMaxHashes :
         \E v \in BitSeqs(nv) :
            /\ totalTx' = n
            /\ output' = <<>>
            /\ UNCHANGED <<intBits, decodeVars, args, err, exitCode>>
            /\ SetState(Enter(St, v, InputHashes(nh), TreeHeight(n)))

IterAllHashesParsed ==
    /\ pc = "loop"
    /\ hashesIndex = Len(hashes)
    /\ SetState(Iterate(St))
    /\ output' = IF Iterate(St).pc = "ok"
                 THEN Append(output, "stdout: // calculated root") \* line 43
                 ELSE output
    /\ UNCHANGED <<intBits, totalTx, decodeVars, args, err, exitCode>>

IterNilCurrent ==
    /\ pc = "loop"
    /\ hashesIndex # Len(hashes)
    /\ current = Nil
    /\ SetState(Iterate(St))
    /\ UNCHANGED <<intBits, totalTx, decodeVars, mainVars>>

IterGoUp ==
    /\ pc = "loop"
    /\ hashesIndex # Len(hashes)
    /\ current # Nil
    /\ Cur(St).Left # Nil /\ Cur(St).Right # Nil
    /\ SetState(Iterate(St))
    /\ UNCHANGED <<intBits, totalTx, decodeVars, mainVars>>

IterVisit ==
    /\ pc = "loop"
    /\ hashesIndex # Len(hashes)
    /\ current # Nil
    /\ ~(Cur(St).Left # Nil /\ Cur(St).Right # Nil)
    /\ SetState(Iterate(St))
    /\ UNCHANGED <<intBits, totalTx, decodeVars, mainVars>>

Loop == IterAllHashesParsed \/ IterNilCurrent \/ IterGoUp \/ IterVisit

Next == Call \/ Loop

Spec == Init /\ [][Next]_vars

NextReuse == Recall \/ Loop

SpecReuse == Init /\ [][NextReuse]_vars

\* ------------------------------------------------------ the height loop
\* buildMerkleTreeDot is entered with some totalTx of the uint32 range, in a
\* build with a narrow or a wide int; pc is "height" while the loop of lines
\* 203-206 runs, "heightDone" after it, and "heightForever" once the shift
\* count has reached the width of int with the condition still true: from
\* there on 1 << height is 0 and the condition never changes again
InitHeight ==
    /\ NoInput
    /\ intBits \in {UintBits, 2 * UintBits}
    /\ totalTx \in 0..(2^UintBits - 1)
    /\ binTree = Fresh.binTree
    /\ target = Fresh.target
    /\ vbits = Fresh.vbits
    /\ hashes = Fresh.hashes
    /\ height = 0
    /\ current = Fresh.current
    /\ vbitsIndex = Fresh.vbitsIndex
    /\ hashesIndex = Fresh.hashesIndex
    /\ depth = Fresh.depth
    /\ root = Fresh.root
    /\ pc = "height"

HeightFrame ==
    UNCHANGED <<intBits, totalTx, binTree, target, vbits, hashes, current,
                vbitsIndex, hashesIndex, depth, root, decodeVars, mainVars>>

\* line 204-205: the condition holds, height++
HeightIncrement ==
    /\ pc = "height"
    /\ HeightCond(height, totalTx, intBits)
    /\ height' = height + 1
    /\ pc' = IF height + 1 >= intBits /\ HeightCond(height + 1, totalTx, intBits)
             THEN "heightForever" ELSE "height"
    /\ HeightFrame

\* line 204: the condition fails, the loop is left
HeightExit ==
    /\ pc = "height"
    /\ ~HeightCond(height, totalTx, intBits)
    /\ pc' = "heightDone"
    /\ height' = height
    /\ HeightFrame

NextHeight == HeightIncrement \/ HeightExit

SpecHeight == InitHeight /\ [][NextHeight]_vars

\* mutant of ReadFull: a short read is filled with zero bytes and is no error
ReadFull_ZeroFill(rd, n) ==
    IF Len(rd) >= n
    THEN [data |-> SubSeq(rd, 1, n), rest |-> SubSeq(rd, n + 1, Len(rd)), err |-> "nil"]
    ELSE [data |-> rd \o [i \in 1..(n - Len(rd)) |-> 0], rest |-> <<>>, err |-> "nil"]

\* ------------------------------------------------------------ the decoder
\* io.ReadFull(r, n bytes) on a bytes.Reader with the unread bytes rd: all n
\* bytes or an error, io.EOF when nothing was left and io.ErrUnexpectedEOF when
\* fewer than n were left; the reader is advanced by what was read
ReadFull(rd, n) ==
    IF Len(rd) >= n
    THEN [data |-> SubSeq(rd, 1, n), rest |-> SubSeq(rd, n + 1, Len(rd)), err |-> "nil"]
    ELSE [data |-> rd, rest |-> <<>>,
          err |-> IF Len(rd) = 0 THEN "EOF" ELSE "ErrUnexpectedEOF"]

\* mutant of LittleEndian: the first byte is the most significant
RECURSIVE BigEndian(_)
BigEndian(data) ==
    IF data = <<>> THEN 0
    ELSE data[Len(data)] + 256 * BigEndian(SubSeq(data, 1, Len(data) - 1))

\* binary.LittleEndian: the unsigned value of the bytes, least significant first
RECURSIVE LittleEndian(_)
LittleEndian(data) ==
    IF data = <<>> THEN 0 ELSE Head(data) + 256 * LittleEndian(Tail(data))

\* readVarInt, lines 63-87: the number of bytes that follow the discriminant
VarIntWidth(discriminant) ==
    CASE discriminant = 253 -> 2
      [] discriminant = 254 -> 4
      [] discriminant = 255 -> 8
      [] OTHER -> 0

\* readVarInt, lines 56-88
readVarInt(rd) ==
    LET d == ReadFull(rd, 1) IN
    IF d.err # "nil" THEN [val |-> 0, err |-> d.err, rest |-> d.rest]
    ELSE IF VarIntWidth(d.data[1]) = 0
         THEN [val |-> d.data[1], err |-> "nil", rest |-> d.rest]
         ELSE LET x == ReadFull(d.rest, VarIntWidth(d.data[1])) IN
              IF x.err # "nil" THEN [val |-> 0, err |-> x.err, rest |-> x.rest]
              ELSE [val |-> LittleEndian(x.data), err |-> "nil", rest |-> x.rest]

\* line 137-141: proofData.HashNum, err = readVarInt(merkleReader)
ReadHashNum ==
    /\ pc = "readHashNum"
    /\ LET r == readVarInt(reader) IN
         /\ reader' = r.rest
         /\ hashNum' = r.val
         /\ err' = r.err
         /\ pc' = IF r.err # "nil" THEN "decodeErr" ELSE "readHashes"
    /\ UNCHANGED <<intBits, totalTx, walkVars, args, buf, proof, merkleRoot,
                   decHashes, vbitsNum, decVBits, output, exitCode>>

\* line 132-135: binary.Read of the uint32 TotalTransactions
ReadTotalTransactions ==
    /\ pc = "readTotalTx"
    /\ LET r == ReadFull(reader, 4) IN
         /\ reader' = r.rest
         /\ totalTx' = IF r.err = "nil" THEN LittleEndian(r.data) ELSE totalTx
         /\ err' = r.err
         /\ pc' = IF r.err # "nil" THEN "decodeErr" ELSE "readHashNum"
    /\ UNCHANGED <<intBits, walkVars, args, buf, proof, merkleRoot, hashNum,
                   decHashes, vbitsNum, decVBits, output, exitCode>>

ZeroBytes(n) == [i \in 1..n |-> 0]

\* lines 144-149: Hashes is made with HashNum zero entries, then filled entry
\* by entry until a read fails
RECURSIVE ReadHashLoop(_, _, _)
ReadHashLoop(rd, n, acc) ==
    IF n = 0 THEN [hashes |-> acc, rest |-> rd, err |-> "nil"]
    ELSE LET x == ReadFull(rd, HashLen) IN
         IF x.err # "nil"
         THEN [hashes |-> Append(acc, x.data \o ZeroBytes(HashLen - Len(x.data)))
                              \o [i \in 1..(n - 1) |-> ZeroBytes(HashLen)],
               rest |-> x.rest, err |-> x.err]
         ELSE ReadHashLoop(x.rest, n - 1, Append(acc, x.data))

ReadHashes ==
    /\ pc = "readHashes"
    /\ LET r == ReadHashLoop(reader, hashNum, <<>>) IN
         /\ reader' = r.rest
         /\ decHashes' = r.hashes
         /\ err' = r.err
         /\ pc' = IF r.err # "nil" THEN "decodeErr" ELSE "readVBitsNum"
    /\ UNCHANGED <<intBits, totalTx, walkVars, args, buf, proof, merkleRoot, hashNum,
                   vbitsNum, decVBits, output, exitCode>>

\* lines 151-155: proofData.VBitsNum, err = readVarInt(merkleReader)
ReadVBitsNum ==
    /\ pc = "readVBitsNum"
    /\ LET r == readVarInt(reader) IN
         /\ reader' = r.rest
         /\ vbitsNum' = r.val
         /\ err' = r.err
         /\ pc' = IF r.err # "nil" THEN "decodeErr" ELSE "readVBits"
    /\ UNCHANGED <<intBits, totalTx, walkVars, args, buf, proof, merkleRoot, hashNum,
                   decHashes, decVBits, output, exitCode>>

\* mutant of UnpackByte: the most significant bit comes first
UnpackByte_MsbFirst(b) == [i \in 1..8 |-> (b \div 2^(8 - i)) % 2 = 1]

\* lines 167-171: isSet := (b>>uint(i))&1 == 1 for i = 0..7
UnpackByte(b) == [i \in 1..8 |-> (b \div 2^(i - 1)) % 2 = 1]

\* lines 165-172: the bits of every byte are appended to VBits
RECURSIVE UnpackVBits(_)
UnpackVBits(bytes) ==
    IF bytes = <<>> THEN <<>> ELSE UnpackByte(Head(bytes)) \o UnpackVBits(Tail(bytes))

\* lines 157-189: the flag bytes are read and unpacked, the decoded data is
\* printed as comment lines and the decoder returns nil
ReadVBits ==
    /\ pc = "readVBits"
    /\ LET r == IF vbitsNum > 0 THEN ReadFull(reader, vbitsNum)
                ELSE [data |-> <<>>, rest |-> reader, err |-> "nil"] IN
         /\ reader' = r.rest
         /\ decVBits' = IF r.err = "nil" THEN UnpackVBits(r.data) ELSE decVBits
         /\ err' = r.err
         /\ pc' = IF r.err # "nil" THEN "decodeErr" ELSE "decoded"
         /\ output' = IF r.err # "nil" THEN output ELSE Append(output, "stdout: // proof data")
    /\ UNCHANGED <<intBits, totalTx, walkVars, args, buf, proof, merkleRoot, hashNum,
                   decHashes, vbitsNum, exitCode>>

\* readers for readVarInt: a discriminant, up to three bytes of any kind, a
\* fourth byte below 128 and zero bytes after it (the decoded value stays
\* below 2^31)
VarIntInputs ==
    {<<>>} \cup
    {<<d>> \o lo \o hi :
        d \in {0, 1, 252, 253, 254, 255},
        lo \in UNION {[1..k -> {0, 1, 255}] : k \in 0..3},
        hi \in {<<>>} \cup {<<b>> \o [i \in 1..m |-> 0] : b \in {0, 1, 127}, m \in 0..MaxVarIntPad}}

\* readVarInt is called on a reader holding any of these inputs
InitVarInt ==
    /\ intBits = 2 * UintBits
    /\ totalTx = 0
    /\ binTree = Fresh.binTree
    /\ target = Fresh.target
    /\ vbits = Fresh.vbits
    /\ hashes = Fresh.hashes
    /\ height = Fresh.height
    /\ current = Fresh.current
    /\ vbitsIndex = Fresh.vbitsIndex
    /\ hashesIndex = Fresh.hashesIndex
    /\ depth = Fresh.depth
    /\ root = Fresh.root
    /\ pc = "readHashNum"
    /\ args = <<>>
    /\ buf \in VarIntInputs
    /\ proof = NoProof
    /\ reader = buf
    /\ merkleRoot = <<>>
    /\ hashNum = 0
    /\ decHashes = <<>>
    /\ vbitsNum = 0
    /\ decVBits = <<>>
    /\ err = "nil"
    /\ output = <<>>
    /\ exitCode = -1

SpecVarInt == InitVarInt /\ [][ReadHashNum]_vars

\* --------------------------------------------------------------- main
\* lines 99-130: the length test, the header, the test for a proof body
DecodeHeader ==
    /\ pc = "decodeHeader"
    /\ IF Len(buf) < HeaderLen
       THEN /\ err' = "header: less than 80 bytes"
            /\ pc' = "decodeErr"
            /\ UNCHANGED <<merkleRoot, reader, output>>
       ELSE /\ merkleRoot' = SubSeq(buf, 37, 68)
            /\ output' = Append(output, "stdout: // block header")
            /\ IF Len(buf) = HeaderLen
               THEN /\ err' = "no additional data found after block header"
                    /\ pc' = "decodeErr"
                    /\ UNCHANGED reader
               ELSE /\ err' = "nil"
                    /\ pc' = "readTotalTx"
                    /\ reader' = SubSeq(buf, HeaderLen + 1, Len(buf))
    /\ UNCHANGED <<intBits, totalTx, walkVars, args, buf, proof, hashNum, decHashes,
                   vbitsNum, decVBits, exitCode>>

\* lines 222-227: the number of arguments
CheckArgs ==
    /\ pc = "main"
    /\ IF Len(args) # 1
       THEN /\ output' = Append(output, "stderr: usage")
            /\ exitCode' = 1
            /\ pc' = "exited"
       ELSE /\ pc' = "hexDecode"
            /\ UNCHANGED <<output, exitCode>>
    /\ UNCHANGED <<intBits, totalTx, walkVars, decodeVars, args, err>>

\* lines 229-239: hex.DecodeString of the argument
HexDecode ==
    /\ pc = "hexDecode"
    /\ IF ~args[1].valid
       THEN /\ output' = Append(output, "stderr: failed to convert hexadecimal string")
            /\ exitCode' = 1
            /\ pc' = "exited"
            /\ UNCHANGED buf
       ELSE /\ buf' = args[1].bytes
            /\ pc' = "decodeHeader"
            /\ UNCHANGED <<output, exitCode>>
    /\ UNCHANGED <<intBits, totalTx, walkVars, proof, reader, merkleRoot, hashNum,
                   decHashes, vbitsNum, decVBits, args, err>>

\* lines 244-248: decodeTxOutProofData returned an error
DecodeFailed ==
    /\ pc = "decodeErr"
    /\ output' = Append(output, "stderr: failed to decode transaction output proof data")
    /\ exitCode' = 1
    /\ pc' = "exited"
    /\ UNCHANGED <<intBits, totalTx, walkVars, decodeVars, args, err>>

\* line 251 and buildMerkleTreeDot, lines 193-209: the height, a new
\* MerkleBranch{} and the call of CreateMerkleBranch
BuildTree ==
    /\ pc = "decoded"
    /\ SetState(Enter(Fresh, decVBits, decHashes, TreeHeight(totalTx)))
    /\ UNCHANGED <<intBits, totalTx, decodeVars, mainVars>>

\* lines 210-212 and 252-255: CreateMerkleBranch returned an error
BuildFailed ==
    /\ pc \in {"errIncomplete", "errVBits"}
    /\ err' = pc
    /\ output' = Append(output, "stderr: error building Merkle tree")
    /\ exitCode' = 1
    /\ pc' = "exited"
    /\ UNCHANGED <<intBits, totalTx, walkVars, decodeVars, args>>

\* mutant of PrintDot: a root that differs from the header's ends the run
PrintDot_MismatchFatal ==
    /\ pc = "ok"
    /\ output' = IF merkleRoot # root
                 THEN Append(output, "stderr: Merkle Root mismatch!!")
                 ELSE Append(output, "stdout: dot")
    /\ exitCode' = IF merkleRoot # root THEN 1 ELSE 0
    /\ pc' = "exited"
    /\ UNCHANGED <<intBits, totalTx, walkVars, decodeVars, args, err>>

\* lines 213-218 and 256-260: BuildGraph, the comparison of the roots, the
\* DOT text on standard output, and main returns
PrintDot ==
    /\ pc = "ok"
    /\ output' = IF merkleRoot # root
                 THEN output \o <<"stderr: Merkle Root mismatch!!", "stdout: dot">>
                 ELSE Append(output, "stdout: dot")
    /\ exitCode' = 0
    /\ pc' = "exited"
    /\ UNCHANGED <<intBits, totalTx, walkVars, decodeVars, args, err>>

\* a panic that nothing recovers: the runtime writes the panic message and
\* the goroutine trace to standard error and exits with status 2
Crash ==
    /\ pc = "panic"
    /\ output' = Append(output, "stderr: panic")
    /\ exitCode' = 2
    /\ pc' = "exited"
    /\ UNCHANGED <<intBits, totalTx, walkVars, decodeVars, args, err>>

\* ----- the inputs of main
Header == [i \in 1..HeaderLen |-> i]

Uint32Bytes(n) == <<n % 256, (n \div 256) % 256, (n \div 65536) % 256, n \div 16777216>>

VarIntBytes(n, form) == IF form = 1 THEN <<n>> ELSE <<253, n % 256, n \div 256>>

\* the j-th hash of a proof: 32 bytes, different from the other hashes
HashBytes(j) == [k \in 1..HashLen |-> (HashLen * j + k) % 256]

RECURSIVE HashesBytes(_)
HashesBytes(n) == IF n = 0 THEN <<>> ELSE HashesBytes(n - 1) \o HashBytes(n)

\* the layout read by decodeTxOutProofData
Serialize(p) ==
    Header \o Uint32Bytes(p.totalTx)
           \o VarIntBytes(p.nHashes, p.form) \o HashesBytes(p.nHashes)
           \o VarIntBytes(Len(p.flagBytes), p.form) \o p.flagBytes

FlagByteVals == {0, 1, 5, 7, 29, 255}

FlagByteSeqs == {<<>>} \cup {<<b>> \o ZeroBytes(k) : b \in FlagByteVals, k \in 0..MaxFlagPad}

Proofs == [totalTx : 0..MaxMainTotalTx, nHashes : 0..MaxProofHashes,
           flagBytes : FlagByteSeqs, form : {1, 3}]

\* an argument that is no hexadecimal string, and the hexadecimal form of bytes
BadHex == [valid |-> FALSE, bytes |-> <<>>]

HexOf(bytes) == [valid |-> TRUE, bytes |-> bytes]

\* the lengths at which a serialization is cut: none of it, one byte less
\* than a header, and every length from the header to the whole
CutPoints(bytes) == {0, HeaderLen - 1} \cup HeaderLen..Len(bytes)

\* the process starts with no argument, with two, with one that is not
\* hexadecimal, or with a serialized proof cut at one of its cut points (the
\* whole serialization included)
InitMain ==
    /\ intBits = 2 * UintBits
    /\ totalTx = 0
    /\ binTree = Fresh.binTree
    /\ target = Fresh.target
    /\ vbits = Fresh.vbits
    /\ hashes = Fresh.hashes
    /\ height = Fresh.height
    /\ current = Fresh.current
    /\ vbitsIndex = Fresh.vbitsIndex
    /\ hashesIndex = Fresh.hashesIndex
    /\ depth = Fresh.depth
    /\ root = Fresh.root
    /\ pc = "main"
    /\ \/ /\ proof = NoProof
          /\ args \in {<<>>, <<BadHex>>, <<HexOf(Serialize(NoProof)), HexOf(<<>>)>>}
       \/ \E p \in Proofs :
            /\ proof = p
            /\ \E n \in CutPoints(Serialize(p)) : args = <<HexOf(SubSeq(Serialize(p), 1, n))>>
    /\ buf = <<>>
    /\ reader = <<>>
    /\ merkleRoot = <<>>
    /\ hashNum = 0
    /\ decHashes = <<>>
    /\ vbitsNum = 0
    /\ decVBits = <<>>
    /\ err = "nil"
    /\ output = <<>>
    /\ exitCode = -1

Decode == DecodeHeader \/ ReadTotalTransactions \/ ReadHashNum \/ ReadHashes
              \/ ReadVBitsNum \/ ReadVBits

NextMain == CheckArgs \/ HexDecode \/ Decode \/ DecodeFailed \/ BuildTree \/ Loop
                \/ BuildFailed \/ PrintDot \/ Crash

SpecMain == InitMain /\ [][NextMain]_vars

\* ------------------------------------- the recursive construction (main.go)
\* buildAndDrawPartialTree of src/main.go, lines 215-297, without the graph it
\* draws: the hash of the node at (height, pos), the two indices after the
\* call (the function advances them through pointers) and the error
RECURSIVE buildAndDrawPartialTree(_, _, _, _, _, _, _)
buildAndDrawPartialTree(ht, pos, vi, hi, v, h, n) ==
    IF vi >= Len(v)
    THEN [hash |-> ZeroHash, vbitsIndex |-> vi, hashesIndex |-> hi,
          err |-> "ran out of flags"]
    ELSE IF ~v[vi + 1] \/ ht = 0
    THEN IF hi >= Len(h)
         THEN [hash |-> ZeroHash, vbitsIndex |-> vi + 1, hashesIndex |-> hi,
               err |-> "ran out of hashes"]
         ELSE [hash |-> h[hi + 1], vbitsIndex |-> vi + 1, hashesIndex |-> hi + 1,
               err |-> "nil"]
    ELSE LET left == buildAndDrawPartialTree(ht - 1, pos * 2, vi + 1, hi, v, h, n)
             nodesInLevel == (n + 2^(ht - 1) - 1) \div 2^(ht - 1)
         IN  IF left.err # "nil" THEN [left EXCEPT !.hash = ZeroHash]
             ELSE LET right == IF pos * 2 + 1 < nodesInLevel
                               THEN buildAndDrawPartialTree(ht - 1, pos * 2 + 1,
                                        left.vbitsIndex, left.hashesIndex, v, h, n)
                               ELSE left  \* rightHash = leftHash
                  IN  IF right.err # "nil" THEN [right EXCEPT !.hash = ZeroHash]
                      ELSE [hash |-> doubleSha256(left.hash \o right.hash),
                            vbitsIndex |-> right.vbitsIndex,
                            hashesIndex |-> right.hashesIndex,
                            err |-> "nil"]

\* buildMerkleTreeDot of src/main.go, lines 199-208: the call on the root
Recursive(n, v, h) == buildAndDrawPartialTree(TreeHeight(n), 0, 0, 0, v, h, n)

\* ------------------------------------------------------------ observations
Done == pc \in Returned \cup {"panic"}

Nodes(s) == 1..Len(s.binTree)

\* BuildGraph, lines 115 and 121: a node without children is drawn as a leaf
IsLeaf(n) == n.Left = Nil /\ n.Right = Nil

Leaves(s) == {i \in Nodes(s) : IsLeaf(s.binTree[i])}

\* number of parent links from node i up to the root
RECURSIVE DepthOf(_, _)
DepthOf(s, i) == IF s.binTree[i].Parent = Nil THEN 0 ELSE 1 + DepthOf(s, s.binTree[i].Parent)

\* BuildGraph, line 122: the leaves drawn as matched
ReportedMatched(s) == {i \in Leaves(s) : i = s.target}

\* every node has a hash and no node has exactly one child
Complete(s) ==
    \A i \in Nodes(s) :
        /\ s.binTree[i].Hash # NilHash
        /\ (s.binTree[i].Left = Nil) = (s.binTree[i].Right = Nil)

\* what a caller can see of a finished call
Observed(s) ==
    [outcome |-> s.pc, root |-> s.root, tree |-> s.binTree,
     matched |-> ReportedMatched(s),
     vbitsIndex |-> s.vbitsIndex, hashesIndex |-> s.hashesIndex]

\* ------------------------------------------------------------------ claims

\* C1: CreateMerkleBranch returns success only when every hash is consumed and
\* the current node is the root with both children hashed; the returned value
\* is doubleSha256(root.Left.Hash || root.Right.Hash) and is the root's hash.
C1_SuccessOnlyAtRoot ==
    pc = "ok" =>
        /\ hashesIndex = Len(hashes)
        /\ current = 1
        /\ binTree[1].Parent = Nil
        /\ HasHashedChildren(St)
        /\ root = doubleSha256(binTree[binTree[1].Left].Hash \o binTree[binTree[1].Right].Hash)
        /\ binTree[1].Hash = root

\* C2: a single-transaction proof (totalTransactions = 1, one hash, at least
\* one flag bit) has height 0 and is reconstructed successfully: one node, one
\* hash consumed, and the returned root is that hash.
C2_SingleTransaction ==
    (Done /\ totalTx = 1 /\ Len(hashes) = 1 /\ Len(vbits) >= 1) =>
        /\ height = 0
        /\ pc = "ok"
        /\ Len(binTree) = 1
        /\ hashesIndex = 1
        /\ root = hashes[1]

\* C3: no partial success: when CreateMerkleBranch returns without error every
\* node of binTree has its hash and has either no child or both children.
C3_NoPartialSuccess == pc = "ok" => Complete(St)

\* C4: in every state of the walk, a node with children whose hash is set has
\* both children hashed and holds doubleSha256(Left.Hash || Right.Hash); a
\* childless node whose hash is set holds the input hash that was the next
\* unconsumed one when it was visited (the k-th such node holds the k-th hash).
C4_HashConsistent ==
    \A i \in Nodes(St) :
        LET n == binTree[i] IN
        n.Hash # NilHash =>
            IF IsLeaf(n)
            THEN n.Hash = hashes[Cardinality({j \in 1..i : IsLeaf(binTree[j]) /\ binTree[j].Hash # NilHash})]
            ELSE /\ n.Left # Nil /\ n.Right # Nil
                 /\ binTree[n.Left].Hash # NilHash
                 /\ binTree[n.Right].Hash # NilHash
                 /\ n.Hash = doubleSha256(binTree[n.Left].Hash \o binTree[n.Right].Hash)

\* C4 witness: the walk goes on after an inner node below the root got its hash
C4_Witness ==
    /\ pc = "loop"
    /\ \E i \in 2..Len(binTree) : ~IsLeaf(binTree[i]) /\ binTree[i].Hash # NilHash
    /\ \E i \in 2..Len(binTree) : IsLeaf(binTree[i]) /\ binTree[i].Hash = hashes[3]

\* C5: at every step of the walk 0 <= depth <= height and the current node
\* exists, no access is out of range, and a malformed proof ends in a returned
\* error.
C5_WalkInBounds ==
    /\ pc # "panic"
    /\ pc = "loop" => (0 <= depth /\ depth <= height /\ current # Nil)

\* C6: for a valid proof (success with a complete tree), the same call with
\* the last hash removed returns the error for exhausted hashes (line 39 is
\* the only error of the code about the hashes).
C6_TruncatedHashes ==
    (pc = "ok" /\ Complete(St)) =>
        CreateMerkleBranch(Fresh, vbits, SubSeq(hashes, 1, Len(hashes) - 1), height).pc = "errIncomplete"

\* C7: for a valid proof with the minimal number of flag bytes, the same call
\* with the last flag byte removed returns the flag or the incomplete error.
C7_TruncatedFlags ==
    (pc = "ok" /\ Complete(St) /\ Len(vbits) % 8 = 0 /\ Len(vbits) - 8 <= vbitsIndex) =>
        CreateMerkleBranch(Fresh, SubSeq(vbits, 1, Len(vbits) - 8), hashes, height).pc
            \in {"errVBits", "errIncomplete"}

\* C8: at a successful return the consumed hashes are as many as the leaves
\* and as len(hashes), the consumed flag bits are as many as the nodes of
\* binTree, and the values of the flag bits after those do not matter.
C8_Consumption ==
    pc = "ok" =>
        /\ hashesIndex = Cardinality(Leaves(St))
        /\ hashesIndex = Len(hashes)
        /\ vbitsIndex = Len(binTree)
        /\ \A v \in BitSeqs(Len(vbits)) :
             (\A k \in 1..vbitsIndex : v[k] = vbits[k]) =>
                 Observed(CreateMerkleBranch(Fresh, v, hashes, height)) = Observed(St)

\* C8 witness: a success on a tree with inner nodes and flag bits left over
C8_Witness == pc = "ok" /\ Len(binTree) >= 5 /\ Len(vbits) >= vbitsIndex + 2

\* the leaves visited at depth = height with flag 1 (the k-th node of binTree
\* is the k-th node visited and read the k-th flag)
FlaggedLeaves(s) ==
    {i \in Leaves(s) : s.binTree[i].Hash # NilHash /\ s.vbits[i] /\ DepthOf(s, i) = s.height}

\* C9: after a success the leaves reported as matched are exactly the leaves
\* visited at depth = height with flag 1.
C9_MatchedLeaves == pc = "ok" => ReportedMatched(St) = FlaggedLeaves(St)

\* C10: a call on a MerkleBranch value that was used before ends as the same
\* call on a new MerkleBranch{}: same outcome, root, tree and matched leaf.
C10_PureFunction ==
    Done => Observed(St) = Observed(CreateMerkleBranch(Fresh, vbits, hashes, height))

\* C10 witness: a call that matched no leaf ends successfully on a value whose
\* target was set by an earlier call
C10_Witness == pc = "ok" /\ target = Discarded

\* C11: for every totalTransactions of the unsigned 32-bit range the height
\* loop terminates, with the least h >= 0 such that 2^h >= totalTransactions.
C11_MinimalHeight ==
    /\ pc # "heightForever"
    /\ pc = "heightDone" =>
          /\ 2^height >= totalTx
          /\ \A h \in 0..(height - 1) : 2^h < totalTx

\* byte j (0 = least significant) of an unsigned value
RECURSIVE ByteOf(_, _)
ByteOf(v, j) == IF j = 0 THEN v % 256 ELSE ByteOf(v \div 256, j - 1)

\* C12: readVarInt returns by the discriminant d = first byte: d < 0xfd gives
\* d and consumes 1 byte; 0xfd, 0xfe, 0xff give the next 2, 4, 8 bytes, least
\* significant first, and consume 3, 5, 9 bytes, minimal or not; 0xfc gives
\* 252 and 0xfd 0x00 0x01 gives 256; a reader that ends before the
\* discriminant or inside the value gives an error.
C12_VarInt ==
    pc \in {"readHashes", "decodeErr"} =>
        IF buf = <<>> THEN pc = "decodeErr" /\ err = "EOF"
        ELSE LET d == buf[1]
                 w == IF d < 253 THEN 0 ELSE IF d = 253 THEN 2 ELSE IF d = 254 THEN 4 ELSE 8
             IN  IF Len(buf) < 1 + w
                 THEN pc = "decodeErr" /\ err \in {"EOF", "ErrUnexpectedEOF"}
                 ELSE /\ pc = "readHashes" /\ err = "nil"
                      /\ Len(buf) - Len(reader) = 1 + w
                      /\ reader = SubSeq(buf, 2 + w, Len(buf))
                      /\ w = 0 => hashNum = d
                      /\ \A j \in 0..7 : ByteOf(hashNum, j) = IF j < w THEN buf[2 + j]
                                                             ELSE IF w = 0 /\ j = 0 THEN d ELSE 0
                      /\ d = 252 => hashNum = 252
                      /\ (d = 253 /\ buf[2] = 0 /\ buf[3] = 1) => hashNum = 256

\* C12 witness: 0xfd 0x00 0x01 was decoded, with bytes left in the reader
C12_Witness ==
    /\ pc = "readHashes"
    /\ Len(buf) > 3 /\ SubSeq(buf, 1, 3) = <<253, 0, 1>>
    /\ hashNum = 256

\* bit i (0 = least significant) of a byte
BitOf(byte, i) == (byte \div 2^i) % 2 = 1

\* C13: F flag bytes are unpacked into exactly 8*F flag bits, bit i (0 = least
\* significant) of byte b is flag 8*b + i; the byte 0b00000101 gives
\* [1,0,1,0,0,0,0,0]; F = 0 gives the empty flag sequence.
C13_FlagBits ==
    pc = "decoded" =>
        /\ vbitsNum = Len(proof.flagBytes)
        /\ Len(decVBits) = 8 * vbitsNum
        /\ \A b \in 0..(vbitsNum - 1) : \A i \in 0..7 :
              decVBits[8 * b + i + 1] = BitOf(proof.flagBytes[b + 1], i)
        /\ proof.flagBytes = <<5>> =>
              decVBits = <<TRUE, FALSE, TRUE, FALSE, FALSE, FALSE, FALSE, FALSE>>
        /\ vbitsNum = 0 => decVBits = <<>>

\* C13 witness: two flag bytes, the first with bits 0, 2, 3 and 4 set (29),
\* were unpacked
C13_Witness ==
    /\ pc = "decoded"
    /\ proof.flagBytes = <<29, 0>>
    /\ Len(decVBits) = 16

\* the argument of a run with one hexadecimal argument
Input == args[1].bytes

\* a line was written to standard output or standard error
Emitted(line) == \E k \in 1..Len(output) : output[k] = line

\* decodeTxOutProofData returned nil (line 189, after the prints of 179-187)
DecodeOk == Emitted("stdout: // proof data")

\* decodeTxOutProofData returned an error
DecodeErr ==
    pc = "decodeErr" \/ Emitted("stderr: failed to decode transaction output proof data")

\* C14: the decoder fails on every truncated input: fewer than 80 bytes,
\* exactly 80 bytes, and every strict prefix of a well-formed serialized
\* proof; the whole serialization decodes, with exactly H hashes in the order
\* of the input.
C14_Truncated ==
    (Len(args) = 1 /\ args[1].valid) =>
        /\ Input # Serialize(proof) => ~DecodeOk
        /\ pc = "exited" => DecodeOk \/ DecodeErr
        /\ (pc = "decodeErr" /\ Len(Input) < HeaderLen) => err = "header: less than 80 bytes"
        /\ (pc = "decodeErr" /\ Len(Input) = HeaderLen) =>
              err = "no additional data found after block header"
        /\ (pc = "decodeErr" /\ Len(Input) > HeaderLen) => err \in {"EOF", "ErrUnexpectedEOF"}
        /\ Input = Serialize(proof) =>
              /\ ~DecodeErr
              /\ DecodeOk => /\ totalTx = proof.totalTx
                             /\ hashNum = proof.nHashes
                             /\ decHashes = [j \in 1..proof.nHashes |-> HashBytes(j)]
                             /\ decVBits = UnpackVBits(proof.flagBytes)

\* C14 witness: the input ended inside the second hash
C14_Witness ==
    /\ pc = "decodeErr"
    /\ err = "ErrUnexpectedEOF"
    /\ hashNum >= 2
    /\ Len(decHashes) = hashNum
    /\ decHashes[1] = HashBytes(1)
    /\ decHashes[2] # HashBytes(2) /\ decHashes[2] # ZeroBytes(HashLen)

\* C15: a root that differs from the header's Merkle root does not abort the
\* run: after a decode and a reconstruction that succeeded the mismatch is
\* reported and the DOT text is written after it, and the run ends with
\* status 0; the outcome of the reconstruction is that of the flags, the
\* hashes and the height alone.
C15_MismatchNotFatal ==
    /\ [](pc \in Returned \cup {"panic"} =>
            pc = CreateMerkleBranch(Fresh, decVBits, decHashes, TreeHeight(totalTx)).pc)
    /\ [][pc = "ok" =>
            /\ pc' = "exited" /\ exitCode' = 0
            /\ output'[Len(output')] = "stdout: dot"
            /\ merkleRoot # root =>
                  /\ Len(output') = Len(output) + 2
                  /\ output'[Len(output') - 1] = "stderr: Merkle Root mismatch!!"]_vars
    /\ []((pc = "exited" /\ Emitted("stdout: // calculated root")) => exitCode = 0)

\* C15 witness: the run ended with the mismatch reported and the DOT text
\* written after it
C15_Witness ==
    /\ pc = "exited" /\ exitCode = 0
    /\ merkleRoot # root
    /\ Len(output) >= 2
    /\ output[Len(output) - 1] = "stderr: Merkle Root mismatch!!"
    /\ output[Len(output)] = "stdout: dot"

\* C16: every run ends with status 0 after the DOT text, or with status 1, a
\* message on standard error and no DOT text; the second for every wrong
\* number of arguments, every hex failure, every decode failure and every
\* reconstruction failure; no DOT text before decode and reconstruction have
\* both succeeded.
C16_ExitCodes ==
    /\ pc = "exited" =>
          \/ /\ exitCode = 0
             /\ output[Len(output)] = "stdout: dot"
          \/ /\ exitCode = 1
             /\ output[Len(output)] \in {"stderr: usage",
                                          "stderr: failed to convert hexadecimal string",
                                          "stderr: failed to decode transaction output proof data",
                                          "stderr: error building Merkle tree"}
             /\ ~Emitted("stdout: dot")
    /\ Emitted("stdout: dot") => DecodeOk /\ Emitted("stdout: // calculated root")
    /\ (pc = "exited" /\ (Len(args) # 1 \/ ~args[1].valid \/ DecodeErr)) => exitCode = 1
    /\ (pc = "exited" /\ DecodeOk /\ ~Emitted("stdout: // calculated root")) => exitCode = 1

\* every node created is a leaf holding a hash or has both children
Shaped(s) ==
    \A i \in Nodes(s) :
        \/ IsLeaf(s.binTree[i]) /\ s.binTree[i].Hash # NilHash
        \/ s.binTree[i].Left # Nil /\ s.binTree[i].Right # Nil

\* C17: flag exhaustion is reported only when a node that needs a flag finds
\* none: a call whose flags are exactly as many as the nodes of the tree, and
\* whose hashes complete the tree, succeeds.
C17_ExactFlags ==
    (Done /\ Len(binTree) = Len(vbits) /\ hashesIndex = Len(hashes) /\ Shaped(St)) =>
        pc = "ok"

\* the measure of the walk: it grows with every iteration
Measure(s) == 3 * s.vbitsIndex - s.depth

\* C18: the walk terminates on every input: every iteration consumes one
\* flag or goes up one level, so the loop ends (success, error or panic)
\* after at most 3 * len(vbits) + 2 iterations.
C18_Terminates ==
    /\ [](pc = "loop" => /\ vbitsIndex <= Len(vbits)
                         /\ depth >= -1
                         /\ 0 <= Measure(St) /\ Measure(St) <= 3 * Len(vbits) + 1)
    /\ [][pc = "loop" =>
            /\ \/ vbitsIndex' = vbitsIndex + 1
               \/ depth' = depth - 1 /\ vbitsIndex' = vbitsIndex
               \/ pc' \in {"ok", "errIncomplete", "panic"} /\ vbitsIndex' = vbitsIndex
            /\ pc' = "loop" => Measure(St') > Measure(St)]_vars

\* C18 witness: a walk in its eighth iteration or later
C18_Witness == pc = "loop" /\ Measure(St) >= 8 /\ depth = 0

\* C19: a hash once set is never changed by a later step of the walk, and a
\* node that has its hash is never again the current node.
C19_HashSetOnce ==
    /\ []((pc = "loop" /\ current # Nil) => Cur(St).Hash = NilHash)
    /\ [][pc = "loop" =>
            \A i \in Nodes(St) :
                binTree[i].Hash # NilHash =>
                    /\ i \in Nodes(St')
                    /\ binTree'[i].Hash = binTree[i].Hash]_vars

\* C19 witness: the walk goes on after the hash of an internal node was set
C19_Witness ==
    /\ pc = "loop"
    /\ \E i \in Nodes(St) : ~IsLeaf(binTree[i]) /\ binTree[i].Hash # NilHash

\* node a is node m or lies on the parent links from m to the root
RECURSIVE IsAncestor(_, _, _)
IsAncestor(s, a, m) ==
    IF m = Nil THEN FALSE ELSE IF a = m THEN TRUE ELSE IsAncestor(s, a, s.binTree[m].Parent)

\* the flag of node k made it a leaf
LeafFlag(s, k) == ~s.vbits[k] \/ DepthOf(s, k) = s.height

\* the number of leaves among the nodes 1..k
LeafRank(s, k) == Cardinality({m \in 1..k : LeafFlag(s, m)})

\* C20: flags and hashes are consumed in order and in depth-first,
\* left-before-right pre-order: the k-th flag decides the k-th node, the j-th
\* hash goes to the j-th leaf, nothing is skipped or used twice; flag 0 or
\* depth = height makes a leaf, flag 1 above that an internal node which
\* gets its left child before its right child.
C20_PreOrder ==
    (pc = "loop" \/ Done) =>
        /\ Len(binTree) \in {vbitsIndex, vbitsIndex + 1}
        /\ hashesIndex = LeafRank(St, vbitsIndex)
        /\ \A k \in Nodes(St) :
              /\ k > vbitsIndex => IsLeaf(binTree[k]) /\ binTree[k].Hash = NilHash
              /\ (k <= vbitsIndex /\ LeafFlag(St, k)) =>
                    /\ IsLeaf(binTree[k])
                    /\ binTree[k].Hash = hashes[LeafRank(St, k)]
              /\ (k <= vbitsIndex /\ ~LeafFlag(St, k)) =>
                    /\ binTree[k].Left = k + 1
                    /\ binTree[k].Right # Nil =>
                          /\ binTree[k].Right > binTree[k].Left
                          /\ \A m \in (k + 1)..(binTree[k].Right - 1) :
                                IsAncestor(St, binTree[k].Left, m)
              /\ k > 1 => /\ binTree[k].Parent \in 1..(k - 1)
                          /\ k \in {binTree[binTree[k].Parent].Left,
                                     binTree[binTree[k].Parent].Right}

\* C20 witness: a finished walk with two internal nodes and four leaves
C20_Witness ==
    /\ pc = "ok"
    /\ hashesIndex = 3
    /\ Cardinality({k \in Nodes(St) : ~IsLeaf(binTree[k])}) >= 2
    /\ \E k \in Nodes(St) : k > 1 /\ binTree[k].Right # Nil

\* C21: on every input with totalTransactions a power of two >= 2 on which
\* the recursive construction succeeds with every hash consumed, the
\* iterative walk succeeds too, consumes as many flags and hashes and returns
\* the same root.
C21_SameAsRecursive ==
    (Done /\ totalTx >= 2 /\ 2^height = totalTx
          /\ Recursive(totalTx, vbits, hashes).err = "nil"
          /\ Recursive(totalTx, vbits, hashes).hashesIndex = Len(hashes)) =>
        /\ pc = "ok"
        /\ vbitsIndex = Recursive(totalTx, vbits, hashes).vbitsIndex
        /\ hashesIndex = Recursive(totalTx, vbits, hashes).hashesIndex
        /\ root = Recursive(totalTx, vbits, hashes).hash

\* C22: after any sequence of calls on one MerkleBranch value the target is
\* absent or a leaf of the current binTree that the last call matched, also
\* when the last call matched no leaf or returned an error.
C22_NoLeak ==
    pc \in Returned =>
        \/ target = Nil
        \/ target \in FlaggedLeaves(St)

TypeOK ==
    /\ totalTx \in 0..MaxTotalTx
    /\ height = TreeHeight(totalTx)
    /\ pc \in {"idle", "loop", "panic"} \cup Returned
    /\ current \in 0..Len(binTree)
    /\ target \in -1..Len(binTree)
    /\ vbitsIndex \in 0..Len(vbits)
    /\ hashesIndex \in 0..Len(hashes)
    /\ depth \in -1..height
====
